---------------------------- MODULE Spec2Model ----------------------------
(***************************************************************************)
(* Model of src/ebay_added_fields_github.py: the seller classifier, the    *)
(* profit calculator, the target-cost solver, the form with its saved       *)
(* searches (save, load, delete, the loaded_* keys) and the search run      *)
(* with its per-listing filter loop.                                       *)
(*                                                                         *)
(* Numbers.  Python floats are modelled as exact fixed-point integers.    *)
(* A money amount is an integer count of units, 400000 units to the cent   *)
(* (Cents(n)); with prices in whole cents and rates in whole percent every *)
(* product of the fee formulas (x 1.0825, x 0.136, x 0.153, x rate/100) is *)
(* an exact integer, so no rounding is introduced by the model.  A margin  *)
(* (a quotient) is an exact fraction [num, den] in percent.                *)
(*                                                                         *)
(* Python values.  A value is a record [k, v]: k = "none" is None,         *)
(* k = "num" a number v, k = "bad" a non-numeric string such as "abc",     *)
(* k = "huge" an int too large for a float (10**400), k = "absent" a key   *)
(* missing from a JSON object.                                             *)
(***************************************************************************)
EXTENDS Integers, Sequences, FiniteSets, TLC

VARIABLES
    \* the widgets of the form (lines 281-346)
    selected_category, search_term, max_price, cogs_method, cogs,
    target_profit_margin, shipping_cost, ad_rate, limit,
    \* the search run (lines 374-615)
    pc, outcome, query, params, items, idx, results, warnings, shown,
    \* a direct call of one of the three functions and what it gave back
    fnCall, fnRet,
    \* st.session_state: the saved searches (lines 18-19) and the loaded_*
    \* keys (line 152)
    saved_searches, loaded,
    \* the default each widget on the page was built with, and the exception
    \* that ended the drawing of the form, if any
    drawn, render_error

formVars == <<selected_category, search_term, max_price, cogs_method, cogs,
              target_profit_margin, shipping_cost, ad_rate, limit>>
runVars == <<pc, outcome, query, params, items, idx, results, warnings, shown>>
fnVars == <<fnCall, fnRet>>
sessVars == <<saved_searches, loaded, drawn, render_error>>
vars == <<formVars, runVars, fnVars, sessVars>>

-----------------------------------------------------------------------------
(* Values and coercion *)

Cents(n) == n * 400000

None == [k |-> "none", v |-> 0]
Bad == [k |-> "bad", v |-> 0]
Huge == [k |-> "huge", v |-> 1000000]
Absent == [k |-> "absent", v |-> 0]
Num(n) == [k |-> "num", v |-> n]

\* the outcome of an expression: a value, or the exception it raised
Ok(x) == [exc |-> "none", val |-> x]
Raise(e) == [exc |-> e, val |-> 0]

\* float(x): "abc" raises ValueError, None raises TypeError, 10**400 raises
\* OverflowError
ToFloat(x) ==
    CASE x.k = "num" -> Ok(x.v)
      [] x.k = "bad" -> Raise("ValueError")
      [] x.k = "none" -> Raise("TypeError")
      [] x.k = "huge" -> Raise("OverflowError")

\* int(x): as float(x), but a huge int is an int already
ToInt(x) ==
    CASE x.k = "num" -> Ok(x.v)
      [] x.k = "huge" -> Ok(x.v)
      [] x.k = "bad" -> Raise("ValueError")
      [] x.k = "none" -> Raise("TypeError")

\* float(x) if x is not None else 0.0
FloatOrZero(x) == IF x.k # "none" THEN ToFloat(x) ELSE Ok(0)

\* int(x) if x is not None else 0
IntOrZero(x) == IF x.k # "none" THEN ToInt(x) ELSE Ok(0)

\* the first exception of a sequence of outcomes evaluated left to right
RECURSIVE FirstExc(_)
FirstExc(s) ==
    IF s = <<>> THEN "none"
    ELSE IF Head(s).exc # "none" THEN Head(s).exc ELSE FirstExc(Tail(s))

Max(a, b) == IF a >= b THEN a ELSE b

\* an exact quotient num/den
Frac(n, d) == [num |-> n, den |-> d]

-----------------------------------------------------------------------------
(* categorize_seller, lines 69-91 *)

SellerRulesSwapped(score, percent) ==
    IF score >= 5000 /\ percent >= 99 THEN "Elite"
    ELSE IF score >= 1000 /\ percent >= 98 THEN "Excellent"
    ELSE IF score >= 500 /\ percent >= 97 THEN "Very Good"
    ELSE IF score >= 100 /\ percent >= 90 THEN "Average"
    ELSE IF score >= 100 /\ percent >= 95 THEN "Good"
    ELSE IF score < 100 /\ percent >= 90 THEN "Inexperienced"
    ELSE IF percent < 90 THEN "Low Rated"
    ELSE "Uncategorized"

\* the if/elif chain of lines 76-91
SellerRules(score, percent) ==
    IF score >= 5000 /\ percent >= 99 THEN "Elite"
    ELSE IF score >= 1000 /\ percent >= 98 THEN "Excellent"
    ELSE IF score >= 500 /\ percent >= 97 THEN "Very Good"
    ELSE IF score >= 100 /\ percent >= 95 THEN "Good"
    ELSE IF score >= 100 /\ percent >= 90 THEN "Average"
    ELSE IF score < 100 /\ percent >= 90 THEN "Inexperienced"
    ELSE IF percent < 90 THEN "Low Rated"
    ELSE "Uncategorized"

\* the try block catches ValueError and TypeError only
categorize_seller(feedback_score, feedback_percent) ==
    LET score == IntOrZero(feedback_score)
        percent == FloatOrZero(feedback_percent)
        e == FirstExc(<<score, percent>>)
    IN  IF e \in {"ValueError", "TypeError"} THEN Ok("Uncategorized")
        ELSE IF e # "none" THEN Raise(e)
        ELSE Ok(SellerRules(score.val, percent.val))

-----------------------------------------------------------------------------
(* calculate_profit_metrics, lines 205-236 *)

ZeroMargin == Frac(0, 1)

\* the body with every argument already a float: lines 214-233
ProfitBodyNoFlatFee(price, costOfGoods, shipping_cost_input, rate, category) ==
    LET ebay_fee == IF category \in {"Headphones", "Video Games & Consoles"}
                    THEN 136 ELSE 153
        sold_price == price + shipping_cost_input
        sold_price_with_shipping_taxes == (sold_price \div 10000) * (10000 + 825)
        ebay_transaction_fees ==
            (sold_price_with_shipping_taxes \div 1000) * ebay_fee
        ad_fees == (sold_price_with_shipping_taxes \div 100) * rate
        total_expenses == ebay_transaction_fees + ad_fees + shipping_cost_input
        ebay_pay_out == sold_price - total_expenses
        net_profit == ebay_pay_out - costOfGoods
        profit_margin == IF price > 0 THEN Frac(net_profit, price \div 100)
                         ELSE ZeroMargin
    IN  <<net_profit, profit_margin, total_expenses, ebay_pay_out>>

\* ebay_fee is per mille (0.136, 0.153), tax_rate per ten thousand (0.0825),
\* ad_rate in percent; net_profit / price * 100 is the exact fraction
\* net_profit / (price / 100)
ProfitBody(price, costOfGoods, shipping_cost_input, rate, category) ==
    LET ebay_fee == IF category \in {"Headphones", "Video Games & Consoles"}
                    THEN 136 ELSE 153
        final_value_fee == Cents(40)
        sold_price == price + shipping_cost_input
        sold_price_with_shipping_taxes == (sold_price \div 10000) * (10000 + 825)
        ebay_transaction_fees ==
            (sold_price_with_shipping_taxes \div 1000) * ebay_fee + final_value_fee
        ad_fees == (sold_price_with_shipping_taxes \div 100) * rate
        total_expenses == ebay_transaction_fees + ad_fees + shipping_cost_input
        ebay_pay_out == sold_price - total_expenses
        net_profit == ebay_pay_out - costOfGoods
        profit_margin == IF price > 0 THEN Frac(net_profit, price \div 100)
                         ELSE ZeroMargin
    IN  <<net_profit, profit_margin, total_expenses, ebay_pay_out>>

\* the except clause of a calculator: line 129 and line 234
CalcCaught == {"ValueError", "TypeError", "ZeroDivisionError"}

\* coercions of lines 208-212 in order, then the body; a caught exception
\* gives the zero tuple (line 236), any other propagates
calculate_profit_metrics(price, shipping, costOfGoods, shipping_cost_input, rate, category) ==
    LET p == FloatOrZero(price)
        s == FloatOrZero(shipping)
        c == FloatOrZero(costOfGoods)
        sc == FloatOrZero(shipping_cost_input)
        a == FloatOrZero(rate)
        e == FirstExc(<<p, s, c, sc, a>>)
    IN  IF e \in CalcCaught THEN Ok(<<0, ZeroMargin, 0, 0>>)
        ELSE IF e # "none" THEN Raise(e)
        ELSE Ok(ProfitBody(p.val, c.val, sc.val, a.val, category))

-----------------------------------------------------------------------------
(* calculate_cogs_from_margin, lines 94-130 *)

CogsBodyNoClamp(price, shipping_cost_input, rate, category, target_margin) ==
    LET ebay_fee == IF category \in {"Headphones", "Video Games & Consoles"}
                    THEN 136 ELSE 153
        final_value_fee == Cents(40)
        sold_price == price + shipping_cost_input
        sold_price_with_shipping_taxes == (sold_price \div 10000) * (10000 + 825)
        ebay_transaction_fees ==
            (sold_price_with_shipping_taxes \div 1000) * ebay_fee + final_value_fee
        ad_fees == (sold_price_with_shipping_taxes \div 100) * rate
        total_expenses == ebay_transaction_fees + ad_fees + shipping_cost_input
        ebay_pay_out == sold_price - total_expenses
    IN  ebay_pay_out - (price \div 100) * target_margin

\* the solver's fee rate ignoring the category
CogsBodyOneFee(price, shipping_cost_input, rate, category, target_margin) ==
    LET ebay_fee == 153
        final_value_fee == Cents(40)
        sold_price == price + shipping_cost_input
        sold_price_with_shipping_taxes == (sold_price \div 10000) * (10000 + 825)
        ebay_transaction_fees ==
            (sold_price_with_shipping_taxes \div 1000) * ebay_fee + final_value_fee
        ad_fees == (sold_price_with_shipping_taxes \div 100) * rate
        total_expenses == ebay_transaction_fees + ad_fees + shipping_cost_input
        ebay_pay_out == sold_price - total_expenses
        required_cogs == ebay_pay_out - (price \div 100) * target_margin
    IN  Max(0, required_cogs)

\* the body with every argument already a float: lines 103-127;
\* target_margin_decimal * price is (price / 100) * target_margin
CogsBody(price, shipping_cost_input, rate, category, target_margin) ==
    LET ebay_fee == IF category \in {"Headphones", "Video Games & Consoles"}
                    THEN 136 ELSE 153
        final_value_fee == Cents(40)
        sold_price == price + shipping_cost_input
        sold_price_with_shipping_taxes == (sold_price \div 10000) * (10000 + 825)
        ebay_transaction_fees ==
            (sold_price_with_shipping_taxes \div 1000) * ebay_fee + final_value_fee
        ad_fees == (sold_price_with_shipping_taxes \div 100) * rate
        total_expenses == ebay_transaction_fees + ad_fees + shipping_cost_input
        ebay_pay_out == sold_price - total_expenses
        required_cogs == ebay_pay_out - (price \div 100) * target_margin
    IN  Max(0, required_cogs)

\* coercions of lines 97-101 in order, then the body; a caught exception
\* gives 0.0 (line 130), any other propagates
calculate_cogs_from_margin(price, shipping, shipping_cost_input, rate, category, target_margin) ==
    LET p == FloatOrZero(price)
        s == FloatOrZero(shipping)
        sc == FloatOrZero(shipping_cost_input)
        a == FloatOrZero(rate)
        t == FloatOrZero(target_margin)
        e == FirstExc(<<p, s, sc, a, t>>)
    IN  IF e \in CalcCaught THEN Ok(0)
        ELSE IF e # "none" THEN Raise(e)
        ELSE Ok(CogsBody(p.val, sc.val, a.val, category, t.val))

-----------------------------------------------------------------------------
(* Direct calls of the three functions: the inputs they are checked on *)

\* the largest listing price tried, in dollars
MaxListingPrice == 20

Dollars(n) == Cents(100 * n)

CategoryNames == {"All Categories", "DVD & Blu-ray", "Headphones", "Music CDs", "Music Cassettes", "Video Games & Consoles"}

NotNumeric == {None, Bad, Huge}
PriceArgs == NotNumeric \cup {Num(Cents(-100)), Num(0), Num(Dollars(1)), Num(Dollars(MaxListingPrice))}
BuyerShippingArgs == NotNumeric \cup {Num(0)}
CogsArgs == NotNumeric \cup {Num(0), Num(Dollars(2))}
ShippingCostArgs == NotNumeric \cup {Num(0), Num(Cents(447))}
RateArgs == NotNumeric \cup {Num(0), Num(3), Num(100)}
MarginArgs == NotNumeric \cup {Num(0), Num(30), Num(100)}
CategoryArgs == {"Headphones", "Video Games & Consoles", "Music CDs", "None"}
ScoreArgs == NotNumeric \cup {Num(n) : n \in {0, 50, 99, 100, 499, 500, 999, 1000, 4999, 5000, 6000}}
PercentArgs == NotNumeric \cup {Num(n) : n \in {0, 85, 89, 90, 94, 95, 96, 97, 98, 99, 100}}

\* A call and what it gave back are records of one shape for the three
\* functions: fn names the function, the arguments it does not take are None;
\* exc is the exception that came out of the call ("none" when it returned),
\* label the tier of categorize_seller, num the cost of
\* calculate_cogs_from_margin, metrics the tuple of calculate_profit_metrics.
CallOf(fn, price, shipping, costOfGoods, shipCost, rate, category, margin, score, percent) ==
    [fn |-> fn, price |-> price, shipping |-> shipping, cogs |-> costOfGoods, shipping_cost_input |-> shipCost, ad_rate |-> rate, category |-> category, target_margin |-> margin, feedback_score |-> score, feedback_percent |-> percent]

RetOf(exc, label, num, metrics) == [exc |-> exc, label |-> label, num |-> num, metrics |-> metrics]

NoMetrics == <<0, ZeroMargin, 0, 0>>

\* no call made yet; each behaviour makes one call
NoCall == CallOf("none", None, None, None, None, None, "None", None, None, None)
NoRet == RetOf("none", "", 0, NoMetrics)

RetLabel(r) == IF r.exc # "none" THEN RetOf(r.exc, "", 0, NoMetrics) ELSE RetOf("none", r.val, 0, NoMetrics)
RetNum(r) == IF r.exc # "none" THEN RetOf(r.exc, "", 0, NoMetrics) ELSE RetOf("none", "", r.val, NoMetrics)
RetMetrics(r) == IF r.exc # "none" THEN RetOf(r.exc, "", 0, NoMetrics) ELSE RetOf("none", "", 0, r.val)

\* lines 509-517: the solved cost handed on to calculate_profit_metrics; an
\* exception out of either call ends the composition
TargetMarginMode(price, shipping, shipping_cost_input, rate, category, target_margin) ==
    LET calculated_target_cogs == calculate_cogs_from_margin(price, shipping, shipping_cost_input, rate, category, target_margin)
        actual_cogs == Num(calculated_target_cogs.val)
    IN  IF calculated_target_cogs.exc # "none" THEN RetOf(calculated_target_cogs.exc, "", 0, NoMetrics)
        ELSE LET m == calculate_profit_metrics(price, shipping, actual_cogs, shipping_cost_input, rate, category)
             IN  IF m.exc # "none" THEN RetOf(m.exc, "", 0, NoMetrics)
                 ELSE RetOf("none", "", actual_cogs.v, m.val)

CallCategorize ==
    /\ fnCall = NoCall
    /\ \E s \in ScoreArgs, p \in PercentArgs :
        /\ fnCall' = CallOf("categorize_seller", None, None, None, None, None, "None", None, s, p)
        /\ fnRet' = RetLabel(categorize_seller(s, p))
        /\ UNCHANGED <<formVars, runVars, sessVars>>

CallProfit ==
    /\ fnCall = NoCall
    /\ \E p \in PriceArgs, s \in BuyerShippingArgs, c \in CogsArgs, sc \in ShippingCostArgs, a \in RateArgs, cat \in CategoryArgs :
        /\ fnCall' = CallOf("calculate_profit_metrics", p, s, c, sc, a, cat, None, None, None)
        /\ fnRet' = RetMetrics(calculate_profit_metrics(p, s, c, sc, a, cat))
        /\ UNCHANGED <<formVars, runVars, sessVars>>

CallCogs ==
    /\ fnCall = NoCall
    /\ \E p \in PriceArgs, s \in BuyerShippingArgs, sc \in ShippingCostArgs, a \in RateArgs, cat \in CategoryArgs, t \in MarginArgs :
        /\ fnCall' = CallOf("calculate_cogs_from_margin", p, s, None, sc, a, cat, t, None, None)
        /\ fnRet' = RetNum(calculate_cogs_from_margin(p, s, sc, a, cat, t))
        /\ UNCHANGED <<formVars, runVars, sessVars>>

CallTargetMarginMode ==
    /\ fnCall = NoCall
    /\ \E p \in PriceArgs \ NotNumeric, sc \in ShippingCostArgs \ NotNumeric, a \in RateArgs \ NotNumeric, cat \in CategoryArgs, t \in MarginArgs \ NotNumeric :
        /\ fnCall' = CallOf("target_margin_mode", p, Num(0), None, sc, a, cat, t, None, None)
        /\ fnRet' = TargetMarginMode(p, Num(0), sc, a, cat, t)
        /\ UNCHANGED <<formVars, runVars, sessVars>>

-----------------------------------------------------------------------------
(* The form, lines 271-346 *)

\* the number of raw listings in one API response
MaxItems == 2

FormCategories == {"All Categories", "Headphones", "Music CDs"}
SearchTerms == {"", "sony"}
MaxPrices == {1, 10, 150}
CogsInputs == {0, Dollars(2)}
MarginInputs == {30, 100}
ShippingCostInputs == {0, Cents(447)}
AdRateInputs == {0, 3}

\* lines 271-278
category_options ==
    [c \in CategoryNames |->
        CASE c = "All Categories" -> "None"
          [] c = "DVD & Blu-ray" -> "617"
          [] c = "Headphones" -> "112529"
          [] c = "Music CDs" -> "176984"
          [] c = "Music Cassettes" -> "176983"
          [] c = "Video Games & Consoles" -> "1249"]

NoQuery == [term |-> "", minus |-> {}]
NoParams == [q |-> NoQuery, price_lo |-> 0, price_hi |-> 0, conditions |-> {}, buyingOptions |-> {}, limit |-> 0, sort |-> "", category_ids |-> "None"]

\* the number of entries the saved-search list may hold
MaxSaved == 2

\* search_params, lines 356-366
SearchParams(term, category, maxp, method, costOfGoods, margin, shipCost, rate, lim) ==
    [search_term |-> term, category |-> category, max_price |-> maxp, cogs_method |-> method, cogs |-> costOfGoods, target_profit_margin |-> margin, shipping_cost |-> shipCost, ad_rate |-> rate, limit |-> lim]

\* the second arguments of st.session_state.get('loaded_<key>', default),
\* lines 284-345
Defaults ==
    SearchParams("", "All Categories", 150, "Manual COGS Entry", Num(Dollars(2)), Num(30), Cents(447), 3, 25)

\* no loaded_* key in session state; load_saved_search sets all nine at once
\* and lines 388-390 delete all of them at once
NoLoaded == [present |-> FALSE, p |-> Defaults]

\* st.session_state.get('loaded_<key>', default), for the nine keys
LoadedOrDefault(L) == IF L.present THEN L.p ELSE Defaults

\* line 305: index 0 unless loaded_cogs_method is another string
MethodDefault(L) ==
    IF LoadedOrDefault(L).cogs_method = "Manual COGS Entry"
    THEN "Manual COGS Entry"
    ELSE "Target Profit Margin"

\* the values the widgets on the page hold
Widgets ==
    SearchParams(search_term, selected_category, max_price, cogs_method, cogs, target_profit_margin, shipping_cost, ad_rate, limit)

\* no widget on the page: after st.rerun() left the script before the form
\* (lines 261 and 266) every widget of the form is built anew
Purged == SearchParams("<purged>", "<purged>", 0 - 1, "<purged>", None, None, 0 - 1, 0 - 1, 0 - 1)

\* A widget without a key is identified by its label and its arguments: drawn
\* again with the default it was built with, it keeps the value it holds;
\* drawn with another default, it is a new widget showing that default.
Keep(held, builtWith, default) == IF builtWith = default THEN held ELSE default

\* One drawing of the form, lines 281-346, from the values w the widgets hold
\* and the defaults d they were built with, under the loaded_* keys L.
\* float(...) of lines 313 and 322 is evaluated before the widget is called:
\* when it raises, the script ends there and the widgets below are not drawn.
Rerun(w, d, L) ==
    LET def == LoadedOrDefault(L)
        method == Keep(w.cogs_method, d.cogs_method, MethodDefault(L))
        manual == method = "Manual COGS Entry"
        value == ToFloat(IF manual THEN def.cogs ELSE def.target_profit_margin)
        builtWith == IF manual THEN d.cogs ELSE d.target_profit_margin
        held == IF manual THEN w.cogs ELSE w.target_profit_margin
    IN  /\ selected_category' = Keep(w.category, d.category, def.category)
        /\ search_term' = Keep(w.search_term, d.search_term, def.search_term)
        /\ max_price' = Keep(w.max_price, d.max_price, def.max_price)
        /\ cogs_method' = method
        /\ render_error' = value.exc
        /\ IF value.exc # "none"
           THEN /\ UNCHANGED <<cogs, target_profit_margin, shipping_cost, ad_rate, limit>>
                /\ drawn' = [Purged EXCEPT !.search_term = def.search_term, !.category = def.category, !.max_price = def.max_price, !.cogs_method = MethodDefault(L)]
           ELSE /\ cogs' = IF manual THEN Keep(held, builtWith, Num(value.val)) ELSE None
                /\ target_profit_margin' = IF manual THEN None ELSE Keep(held, builtWith, Num(value.val))
                /\ shipping_cost' = Keep(w.shipping_cost, d.shipping_cost, def.shipping_cost)
                /\ ad_rate' = Keep(w.ad_rate, d.ad_rate, def.ad_rate)
                /\ limit' = Keep(w.limit, d.limit, def.limit)
                /\ drawn' = [def EXCEPT !.cogs_method = MethodDefault(L), !.cogs = IF manual THEN Num(value.val) ELSE None, !.target_profit_margin = IF manual THEN None ELSE Num(value.val)]

\* the widgets' defaults with no loaded_* key in session state
InitForm ==
    /\ selected_category = "All Categories"
    /\ search_term = ""
    /\ max_price = 150
    /\ cogs_method = "Manual COGS Entry"
    /\ cogs = Num(Dollars(2))
    /\ target_profit_margin = None
    /\ shipping_cost = Cents(447)
    /\ ad_rate = 3
    /\ limit = 25

\* nothing searched, nothing displayed
InitRun ==
    /\ pc = "form"
    /\ outcome = "none"
    /\ query = NoQuery
    /\ params = NoParams
    /\ items = <<>>
    /\ idx = 0
    /\ results = <<>>
    /\ warnings = 0
    /\ shown = <<>>

InitFn ==
    /\ fnCall = NoCall
    /\ fnRet = NoRet

\* lines 18-19: a new session has no saved search and no loaded_* key; the
\* form is drawn with the defaults
InitSession ==
    /\ saved_searches = <<>>
    /\ loaded = NoLoaded
    /\ drawn = [Defaults EXCEPT !.target_profit_margin = None]
    /\ render_error = "none"

Init == InitForm /\ InitRun /\ InitFn /\ InitSession

\* a script run in which the search button was not clicked displays no
\* results: line 374 is false
NoSearchRun ==
    /\ pc' = "form"
    /\ outcome' = "none"
    /\ query' = NoQuery
    /\ params' = NoParams
    /\ items' = <<>>
    /\ idx' = 0
    /\ results' = <<>>
    /\ warnings' = 0
    /\ shown' = <<>>

\* lines 281-285
SelectCategory ==
    /\ pc = "form"
    /\ \E c \in FormCategories : Rerun([Widgets EXCEPT !.category = c], drawn, loaded)
    /\ NoSearchRun
    /\ UNCHANGED <<saved_searches, loaded, fnVars>>

\* lines 287-290
EnterSearchTerm ==
    /\ pc = "form"
    /\ \E t \in SearchTerms : Rerun([Widgets EXCEPT !.search_term = t], drawn, loaded)
    /\ NoSearchRun
    /\ UNCHANGED <<saved_searches, loaded, fnVars>>

\* lines 292-297
EnterMaxPrice ==
    /\ pc = "form"
    /\ \E m \in MaxPrices : Rerun([Widgets EXCEPT !.max_price = m], drawn, loaded)
    /\ NoSearchRun
    /\ UNCHANGED <<saved_searches, loaded, fnVars>>

\* lines 302-325: the widget of the method chosen is drawn with its default,
\* the other value is None
SelectCogsMethod ==
    /\ pc = "form"
    /\ \E m \in {"Manual COGS Entry", "Target Profit Margin"} :
        /\ m # cogs_method
        /\ Rerun([Widgets EXCEPT !.cogs_method = m], drawn, loaded)
    /\ NoSearchRun
    /\ UNCHANGED <<saved_searches, loaded, fnVars>>

\* lines 308-315
EnterCogs ==
    /\ pc = "form"
    /\ render_error = "none"
    /\ cogs_method = "Manual COGS Entry"
    /\ \E c \in CogsInputs : Rerun([Widgets EXCEPT !.cogs = Num(c)], drawn, loaded)
    /\ NoSearchRun
    /\ UNCHANGED <<saved_searches, loaded, fnVars>>

\* lines 317-324
EnterTargetMargin ==
    /\ pc = "form"
    /\ render_error = "none"
    /\ cogs_method = "Target Profit Margin"
    /\ \E t \in MarginInputs : Rerun([Widgets EXCEPT !.target_profit_margin = Num(t)], drawn, loaded)
    /\ NoSearchRun
    /\ UNCHANGED <<saved_searches, loaded, fnVars>>

\* lines 327-332
EnterShippingCost ==
    /\ pc = "form"
    /\ render_error = "none"
    /\ \E c \in ShippingCostInputs : Rerun([Widgets EXCEPT !.shipping_cost = c], drawn, loaded)
    /\ NoSearchRun
    /\ UNCHANGED <<saved_searches, loaded, fnVars>>

\* lines 334-339
EnterAdRate ==
    /\ pc = "form"
    /\ render_error = "none"
    /\ \E a \in AdRateInputs : Rerun([Widgets EXCEPT !.ad_rate = a], drawn, loaded)
    /\ NoSearchRun
    /\ UNCHANGED <<saved_searches, loaded, fnVars>>

\* search_name of line 135
SearchName(search_params) ==
    <<search_params.search_term, " in ", search_params.category, " ($", search_params.max_price, ")">>

\* an append with no look at the names already there
save_always_appends(search_params, saved) ==
    [ok |-> TRUE, list |-> Append(saved, [name |-> SearchName(search_params), params |-> search_params])]

\* lines 133-147: what is returned and the list afterwards (saved_at, the
\* time of saving, is left out)
save_current_search(search_params, saved) ==
    LET search_name == SearchName(search_params)
        existing_names == {saved[i].name : i \in 1..Len(saved)}
    IN  IF search_name \notin existing_names
        THEN [ok |-> TRUE, list |-> Append(saved, [name |-> search_name, params |-> search_params])]
        ELSE [ok |-> FALSE, list |-> saved]

\* lines 154-157, index counted from 1
delete_saved_search(index, saved) ==
    IF 1 <= index /\ index <= Len(saved)
    THEN [i \in 1..(Len(saved) - 1) |-> IF i < index THEN saved[i] ELSE saved[i + 1]]
    ELSE saved

\* Click on "Save Search", lines 355-371: the form is drawn, then the values
\* of the widgets are saved under their derived name.
SaveSearch ==
    /\ pc = "form"
    /\ render_error = "none"
    /\ Rerun(Widgets, drawn, loaded)
    /\ IF render_error' # "none"
       THEN outcome' = "none" /\ saved_searches' = saved_searches
       ELSE LET search_params == SearchParams(search_term', selected_category', max_price', cogs_method',
                                              IF cogs_method' = "Manual COGS Entry" THEN cogs' ELSE None,
                                              IF cogs_method' = "Target Profit Margin" THEN target_profit_margin' ELSE None,
                                              shipping_cost', ad_rate', limit')
                saved == save_current_search(search_params, saved_searches)
            IN  /\ saved.ok => Len(saved_searches) < MaxSaved
                /\ saved_searches' = saved.list
                /\ outcome' = IF saved.ok THEN "saved" ELSE "already_exists"
    /\ pc' = "form"
    /\ query' = NoQuery /\ params' = NoParams /\ items' = <<>>
    /\ idx' = 0 /\ results' = <<>> /\ warnings' = 0 /\ shown' = <<>>
    /\ UNCHANGED <<loaded, fnVars>>

\* Click on "Load" of entry i, lines 258-261 and 149-152: the nine loaded_*
\* keys are set and st.rerun() draws the form anew.
LoadSearch ==
    /\ pc = "form"
    /\ \E i \in 1..Len(saved_searches) :
        /\ loaded' = [present |-> TRUE, p |-> saved_searches[i].params]
        /\ Rerun(Widgets, Purged, loaded')
    /\ NoSearchRun
    /\ UNCHANGED <<saved_searches, fnVars>>

\* Click on "Delete" of entry i, lines 263-266 and 154-157
DeleteSearch ==
    /\ pc = "form"
    /\ \E i \in 1..Len(saved_searches) :
        saved_searches' = delete_saved_search(i, saved_searches)
    /\ Rerun(Widgets, Purged, loaded)
    /\ NoSearchRun
    /\ UNCHANGED <<loaded, fnVars>>

-----------------------------------------------------------------------------
(* The search run, lines 374-615 *)

\* A title is its sequence of words.  A raw listing carries the fields the loop
\* reads: title, price.value, shippingOptions[0].shippingCost.value,
\* conditionId, seller.feedbackScore, seller.feedbackPercentage, itemWebUrl.
RawItem(title, price, shipping, conditionId, score, percent, link) ==
    [title |-> title, price |-> price, shipping |-> shipping, conditionId |-> conditionId, feedbackScore |-> score, feedbackPercentage |-> percent, itemWebUrl |-> link]

\* what the marketplace may send back, honouring the request or not
ItemPool ==
    { RawItem(<<"sony", "headphones">>, Num(Dollars(10)), Absent, "3000", Num(6000), Num(100), "url1"),
      RawItem(<<"sony", "headphones", "untested">>, Num(Dollars(1)), Num(0), "7000", Num(700), Num(98), "url2"),
      RawItem(<<"sony", "wh1000">>, Num(Dollars(10)), Num(Cents(447)), "1000", Absent, Absent, "url3"),
      RawItem(<<"ear", "pads", "for", "sony">>, Num(Dollars(5)), Num(0), "1000", Num(120), Num(96), "url4"),
      RawItem(<<"sony", "mdr">>, Bad, Num(0), "3000", Num(50), Num(91), "url5"),
      RawItem(<<"sony", "zx110">>, Num(Dollars(5)), Num(0), "2000", Num(50), Huge, "url6") }

RECURSIVE SeqsUpTo(_, _)
SeqsUpTo(S, n) ==
    IF n = 0 THEN {<<>>}
    ELSE LET shorter == SeqsUpTo(S, n - 1)
         IN  shorter \cup {Append(b, x) : b \in {c \in shorter : Len(c) = n - 1}, x \in S}

Responses == SeqsUpTo(ItemPool, MaxItems)

\* phrases of excluded_terms_headphones, lines 393-432, word by word (those a
\* title over the words of ItemPool and their neighbours can contain)
excluded_terms_headphones ==
    { <<"ear", "pads", "only">>, <<"case", "only">>, <<"parts", "only">>,
      <<"compatible", "with">>, <<"fits">>, <<"replacement", "for">>,
      <<"ear", "pads", "for">>, <<"pads", "for">>, <<"case", "for">>,
      <<"broken">>, <<"for", "parts", "not", "working">>, <<"no", "sound">>,
      <<"empty", "box">> }

\* lines 433-438 for a category sending no exclusions
BuildQueryPlain(term, category) == [term |-> term, minus |-> {}]

\* lines 433-438: '"term" -(a,b,...)' for Headphones, '"term"' otherwise
BuildQuery(term, category) ==
    IF category \in {"Headphones"}
    THEN [term |-> term, minus |-> excluded_terms_headphones]
    ELSE [term |-> term, minus |-> {}]

\* lines 441-457
BuildParams(q, maxp, lim, category) ==
    [q |-> q, price_lo |-> 1, price_hi |-> maxp,
     conditions |-> {"1000", "1500", "2000", "2500", "3000"},
     buyingOptions |-> {"FIXED_PRICE", "BEST_OFFER"},
     limit |-> lim, sort |-> "price", category_ids |-> category_options[category]]

\* dict.get(key, default)
Get(field, default) == IF field.k = "absent" THEN default ELSE field

IsForPartsNever(item) == FALSE

\* lines 500-501
IsForParts(item) == item.conditionId = "7000"

WithinCeilingAlways(total_cost, maxp) == TRUE

\* line 528, total_cost <= max_price: a float against whole dollars
WithinCeiling(total_cost, maxp) == -((-total_cost) \div Dollars(1)) <= maxp

\* lines 504-512: [exc, val] with val the actual_cogs
ActualCogs(price, shipping, method, manualCogs, shipCost, rate, category, margin) ==
    IF method = "Manual COGS Entry" THEN Ok(manualCogs)
    ELSE LET c == calculate_cogs_from_margin(price, shipping, Num(shipCost), Num(rate), category, margin)
         IN  IF c.exc # "none" THEN c ELSE Ok(Num(c.val))

\* One pass of the loop body, lines 490-546, on one raw listing:
\* kind "error" when a statement raised (the handler of line 548 runs),
\* "parts" for the continue of line 502, "over" when line 528 is false,
\* "append" with the result of lines 529-544.
ProcessOne(item, method, manualCogs, margin, shipCost, rate, category, maxp) ==
    LET price == ToFloat(Get(item.price, Num(0)))
        shipping == ToFloat(Get(item.shipping, Num(0)))
        coerced == FirstExc(<<price, shipping>>)
    IN  IF coerced # "none" THEN [kind |-> "error", exc |-> coerced]
        ELSE IF IsForParts(item) THEN [kind |-> "parts"]
        ELSE LET total_cost == price.val + shipping.val
                 actual_cogs == ActualCogs(Num(price.val), Num(shipping.val), method, manualCogs, shipCost, rate, category, margin)
                 metrics == calculate_profit_metrics(Num(price.val), Num(shipping.val), actual_cogs.val, Num(shipCost), Num(rate), category)
                 seller_feedback_score == Get(item.feedbackScore, Num(0))
                 seller_feedback_percent == Get(item.feedbackPercentage, Num(0))
                 seller_category == categorize_seller(seller_feedback_score, seller_feedback_percent)
                 raised == FirstExc(<<actual_cogs, metrics, seller_category>>)
             IN  IF actual_cogs.exc # "none" THEN [kind |-> "error", exc |-> actual_cogs.exc]
                 ELSE IF raised # "none" THEN [kind |-> "error", exc |-> raised]
                 ELSE IF ~WithinCeiling(total_cost, maxp) THEN [kind |-> "over"]
                 ELSE [kind |-> "append",
                       result |-> [listing |-> item.title,
                                   price |-> price.val,
                                   ebay_pay_out |-> metrics.val[4],
                                   total_expenses |-> metrics.val[3],
                                   target_acquisition_cost_cogs |-> actual_cogs.val,
                                   net_profit |-> metrics.val[1],
                                   profit_margin |-> metrics.val[2],
                                   seller_rating |-> seller_category.val,
                                   seller_feedback |-> seller_feedback_percent,
                                   seller_feedback_score |-> seller_feedback_score,
                                   link |-> item.itemWebUrl]]

\* the outcomes of the token request and of requests.get: lines 381-385 and
\* 466-486
ApiOutcomes == {"no_token", "api_error", "network_error"}

\* the keys are left in session state
KeepLoaded(L) == L

\* lines 388-390: every key starting with loaded_ is deleted
ClearLoaded(L) == NoLoaded

\* a response whose status is not looked at: the run goes on to the loop
RespondIgnoringStatus(r) ==
    IF r \in ApiOutcomes
    THEN outcome' = r /\ pc' = "loop" /\ items' = <<>>
    ELSE IF r = <<>>
    THEN outcome' = "no_items" /\ pc' = "form" /\ items' = <<>>
    ELSE outcome' = "searching" /\ pc' = "loop" /\ items' = r

\* lines 464-488 and 611-614: the answer r of requests.get is an error (a
\* status other than 200, or an exception), an empty list, or the listings
\* the loop goes through
Respond(r) ==
    IF r \in ApiOutcomes
    THEN outcome' = r /\ pc' = "form" /\ items' = <<>>
    ELSE IF r = <<>>
    THEN outcome' = "no_items" /\ pc' = "form" /\ items' = <<>>
    ELSE outcome' = "searching" /\ pc' = "loop" /\ items' = r

\* Click on "Search eBay", lines 374-488, up to the first listing: the form is
\* drawn, the term and the token are checked, the loaded_* keys are deleted
\* (lines 388-390) and the request is sent.
Search ==
    /\ pc = "form"
    /\ render_error = "none"
    /\ Rerun(Widgets, drawn, loaded)
    /\ idx' = 1
    /\ results' = <<>>
    /\ warnings' = 0
    /\ shown' = <<>>
    /\ IF render_error' # "none"
       THEN /\ outcome' = "none"
            /\ pc' = "form"
            /\ query' = NoQuery /\ params' = NoParams /\ items' = <<>>
            /\ loaded' = loaded
       ELSE IF search_term' = ""
       THEN /\ outcome' = "no_term"
            /\ pc' = "form"
            /\ query' = NoQuery /\ params' = NoParams /\ items' = <<>>
            /\ loaded' = loaded
       ELSE \E r \in ApiOutcomes \cup Responses :
            IF r = "no_token"
            THEN /\ outcome' = "no_token"
                 /\ pc' = "form"
                 /\ query' = NoQuery /\ params' = NoParams /\ items' = <<>>
                 /\ loaded' = loaded
            ELSE /\ loaded' = ClearLoaded(loaded)
                 /\ query' = BuildQuery(search_term', selected_category')
                 /\ params' = BuildParams(query', max_price', limit', selected_category')
                 /\ Respond(r)
    /\ UNCHANGED <<saved_searches, fnVars>>

\* the loop with no handler inside it: the first exception ends the run in
\* the handler of line 613
ProcessItemAbort ==
    /\ pc = "loop"
    /\ idx <= Len(items)
    /\ LET step == ProcessOne(items[idx], cogs_method, cogs, target_profit_margin, shipping_cost, ad_rate, selected_category, max_price)
       IN  /\ results' = IF step.kind = "append" THEN Append(results, step.result) ELSE results
           /\ warnings' = warnings
           /\ IF step.kind = "error"
              THEN pc' = "form" /\ outcome' = "unexpected_error" /\ idx' = idx
              ELSE pc' = pc /\ outcome' = outcome /\ idx' = idx + 1
    /\ UNCHANGED <<formVars, fnVars, sessVars, query, params, items, shown>>

\* One iteration of the loop of lines 489-550: a listing that raised is
\* warned about and skipped (lines 548-550).
ProcessItem ==
    /\ pc = "loop"
    /\ idx <= Len(items)
    /\ LET step == ProcessOne(items[idx], cogs_method, cogs, target_profit_margin, shipping_cost, ad_rate, selected_category, max_price)
       IN  /\ results' = IF step.kind = "append" THEN Append(results, step.result) ELSE results
           /\ warnings' = IF step.kind = "error" THEN warnings + 1 ELSE warnings
    /\ idx' = idx + 1
    /\ UNCHANGED <<formVars, fnVars, sessVars, pc, outcome, query, params, items, shown>>

\* the orders df.sort_values(by="price") may give: ascending by price, rows
\* of equal price in either order
SortedByPrice(rows) ==
    LET n == Len(rows)
        perms == {f \in [1..n -> 1..n] : \A i, j \in 1..n : i # j => f[i] # f[j]}
    IN  {[i \in 1..n |-> rows[f[i]]] : f \in {g \in perms : \A i, j \in 1..n : i < j => rows[g[i]].price <= rows[g[j]].price}}

\* After the loop, lines 552-609: the table, the analytics and the export of
\* the sorted results, or the "No listings found" notice.
Finish ==
    /\ pc = "loop"
    /\ idx > Len(items)
    /\ pc' = "form"
    /\ IF results # <<>>
       THEN outcome' = "shown" /\ shown' \in SortedByPrice(results)
       ELSE outcome' = "no_results" /\ shown' = <<>>
    /\ UNCHANGED <<formVars, fnVars, sessVars, query, params, items, idx, results, warnings>>

Next ==
    \/ SelectCategory
    \/ EnterSearchTerm
    \/ EnterMaxPrice
    \/ SelectCogsMethod
    \/ EnterCogs
    \/ EnterTargetMargin
    \/ EnterShippingCost
    \/ EnterAdRate
    \/ Search
    \/ ProcessItem
    \/ Finish

Spec == Init /\ [][Next]_vars

NextFn ==
    \/ CallCategorize
    \/ CallProfit
    \/ CallCogs
    \/ CallTargetMarginMode

SpecFn == Init /\ [][NextFn]_vars

\* the saved searches: saving, loading and deleting, with the edits and the
\* search run they interact with
NextSession ==
    \/ EnterSearchTerm
    \/ SelectCogsMethod
    \/ SaveSearch
    \/ LoadSearch
    \/ DeleteSearch
    \/ Search
    \/ ProcessItem
    \/ Finish

SpecSession == Init /\ [][NextSession]_vars

-----------------------------------------------------------------------------
(* Claims about the three functions, checked under SpecFn *)

IsNum(x) == x.k = "num"

C1_Labels == <<"Elite", "Excellent", "Very Good", "Good", "Average", "Inexperienced", "Low Rated">>

C1_Satisfied(score, percent) ==
    << score >= 5000 /\ percent >= 99,
       score >= 1000 /\ percent >= 98,
       score >= 500 /\ percent >= 97,
       score >= 100 /\ percent >= 95,
       score >= 100 /\ percent >= 90,
       score < 100 /\ percent >= 90,
       percent < 90 >>

\* the label of the lowest-numbered rule that is satisfied
C1_FirstMatch(score, percent) ==
    LET hits == {i \in 1..7 : C1_Satisfied(score, percent)[i]}
    IN  IF hits = {} THEN "Uncategorized"
        ELSE C1_Labels[CHOOSE i \in hits : \A j \in hits : i <= j]

\* C1: for a feedback score >= 0 and a feedback percentage in 0..100 that
\* coerce, categorize_seller returns the label of the first of the seven
\* rules, tried in the order Elite .. Low Rated, that is satisfied, and
\* Uncategorized when none is.
C1_FirstMatchingRule ==
    (/\ fnCall.fn = "categorize_seller"
     /\ IsNum(fnCall.feedback_score) /\ fnCall.feedback_score.v >= 0
     /\ IsNum(fnCall.feedback_percent) /\ fnCall.feedback_percent.v \in 0..100)
    => /\ fnRet.exc = "none"
       /\ fnRet.label = C1_FirstMatch(fnCall.feedback_score.v, fnCall.feedback_percent.v)

\* a seller satisfying both rule 4 (Good) and rule 5 (Average) is Good
C1_Witness ==
    /\ fnCall.fn = "categorize_seller"
    /\ fnCall.feedback_score = Num(6000)
    /\ fnCall.feedback_percent = Num(96)
    /\ fnRet.label = "Good"

\* the numeric arguments of a call of calculate_profit_metrics are numbers
C_AllNumeric == \A x \in {fnCall.price, fnCall.shipping, fnCall.cogs, fnCall.shipping_cost_input, fnCall.ad_rate} : IsNum(x)

\* the numeric arguments of a call of calculate_cogs_from_margin are numbers
C_CogsAllNumeric == \A x \in {fnCall.price, fnCall.shipping, fnCall.shipping_cost_input, fnCall.ad_rate, fnCall.target_margin} : IsNum(x)

\* the payout calculate_profit_metrics reports for the call's listing
C_Payout == calculate_profit_metrics(fnCall.price, fnCall.shipping, Num(0), fnCall.shipping_cost_input, fnCall.ad_rate, fnCall.category).val[4]

C2_Margin == fnRet.metrics[2]

\* margin = target to within a ten-thousandth of a percentage point
C2_MarginIsTarget ==
    LET diff == C2_Margin.num - fnCall.target_margin.v * C2_Margin.den
    IN  /\ diff <= C2_Margin.den \div 10000
        /\ -diff <= C2_Margin.den \div 10000

\* C2 as stated: for every price > 0, seller shipping cost >= 0, ad rate and
\* target margin in 0..100, the cost solved by calculate_cogs_from_margin fed
\* to calculate_profit_metrics gives a profit margin equal to the target.
C2_RoundTripAlways ==
    (/\ fnCall.fn = "target_margin_mode"
     /\ fnCall.price.v > 0)
    => (fnRet.exc = "none" /\ C2_MarginIsTarget)

\* C2 amended: the margin equals the target whenever the solved cost is not
\* clamped (payout >= target/100 * price); when it is clamped to 0 the margin
\* is payout / price * 100, which is below the target.
C2_RoundTripUnlessClamped ==
    (/\ fnCall.fn = "target_margin_mode"
     /\ fnCall.price.v > 0)
    => /\ fnRet.exc = "none"
       /\ IF C_Payout >= (fnCall.price.v \div 100) * fnCall.target_margin.v
          THEN C2_MarginIsTarget
          ELSE /\ fnRet.num = 0
               /\ C2_Margin = Frac(C_Payout, fnCall.price.v \div 100)
               /\ C2_Margin.num < fnCall.target_margin.v * C2_Margin.den

\* a positive cost solved for a 30% target on a Headphones listing
C2_Witness ==
    /\ fnCall.fn = "target_margin_mode"
    /\ fnCall.price.v = Dollars(MaxListingPrice)
    /\ fnCall.category = "Headphones"
    /\ fnCall.target_margin.v = 30
    /\ fnRet.num > 0
    /\ C2_MarginIsTarget

C3_Expected(price, acquisitionCost, sellerShippingCost, adRate, category) ==
    LET feeRate == IF category = "Headphones" \/ category = "Video Games & Consoles" THEN 136 ELSE 153
        soldPrice == price + sellerShippingCost
        taxedSoldPrice == (soldPrice \div 10000) * 10825
        marketplaceFee == (taxedSoldPrice \div 1000) * feeRate + Cents(40)
        adFee == (taxedSoldPrice \div 100) * adRate
        totalExpenses == marketplaceFee + adFee + sellerShippingCost
        payout == soldPrice - totalExpenses
        netProfit == payout - acquisitionCost
    IN  [netProfit |-> netProfit, totalExpenses |-> totalExpenses, payout |-> payout]

\* C3: for numeric inputs calculate_profit_metrics returns netProfit,
\* totalExpenses and payout as given by soldPrice = price + sellerShippingCost,
\* taxedSoldPrice = soldPrice * 1.0825, marketplaceFee = taxedSoldPrice *
\* feeRate + 0.40 (0.136 for Headphones and Video Games & Consoles, else
\* 0.153), adFee = adRate/100 * taxedSoldPrice, totalExpenses = marketplaceFee
\* + adFee + sellerShippingCost, payout = soldPrice - totalExpenses, netProfit
\* = payout - acquisitionCost; marginPercent is netProfit / price * 100 when
\* price > 0 and 0 when price is 0, with no error.
C3_ProfitFormula ==
    (fnCall.fn = "calculate_profit_metrics" /\ C_AllNumeric)
    => LET e == C3_Expected(fnCall.price.v, fnCall.cogs.v, fnCall.shipping_cost_input.v, fnCall.ad_rate.v, fnCall.category)
       IN  /\ fnRet.exc = "none"
           /\ fnRet.metrics[1] = e.netProfit
           /\ fnRet.metrics[3] = e.totalExpenses
           /\ fnRet.metrics[4] = e.payout
           /\ fnCall.price.v > 0 => fnRet.metrics[2] = Frac(e.netProfit, fnCall.price.v \div 100)
           /\ fnCall.price.v = 0 => fnRet.metrics[2] = Frac(0, 1)

\* the worked example: price 20.00, seller shipping 4.47, ad rate 3%, default
\* fee tier, acquisition cost 2.00 give net profit 12.752554175, expenses
\* 9.717445825, payout 14.752554175, margin 63.76%
C3_Witness ==
    /\ fnCall = CallOf("calculate_profit_metrics", Num(Dollars(20)), Num(0), Num(Dollars(2)), Num(Cents(447)), Num(3), "Music CDs", None, None, None)
    /\ fnRet.metrics = <<510102167, Frac(510102167, 8000000), 388697833, 590102167>>

\* C4 as stated: categorize_seller(None, None) is Uncategorized.
C4_NoneNoneUncategorized ==
    (/\ fnCall.fn = "categorize_seller"
     /\ fnCall.feedback_score = None
     /\ fnCall.feedback_percent = None)
    => (fnRet.exc = "none" /\ fnRet.label = "Uncategorized")

C5_Unclamped == C_Payout - (fnCall.price.v \div 100) * fnCall.target_margin.v

\* C5: calculate_cogs_from_margin returns max(0, payout - target/100 * price)
\* with payout as calculate_profit_metrics computes it, and never returns a
\* negative number.
C5_ClampedInverse ==
    fnCall.fn = "calculate_cogs_from_margin"
    => /\ C_CogsAllNumeric
          => /\ fnRet.exc = "none"
             /\ fnRet.num = IF C5_Unclamped > 0 THEN C5_Unclamped ELSE 0
       /\ fnRet.exc = "none" => fnRet.num >= 0

\* a target that the payout cannot meet: the cost is floored at 0
C5_Witness ==
    /\ fnCall.fn = "calculate_cogs_from_margin"
    /\ C_CogsAllNumeric
    /\ fnCall.price.v > 0
    /\ C5_Unclamped < 0
    /\ fnRet.exc = "none"
    /\ fnRet.num = 0

NoneAsZero(x) == IF x = None THEN Num(0) ELSE x

CoercionFails(x) == x # None /\ ~IsNum(x)

\* C6 as stated: neither calculator propagates an error whatever its
\* arguments; None counts as 0; when a coercion fails the result is
\* (0, 0, 0, 0), respectively 0.
C6_NeverPropagates ==
    /\ fnCall.fn = "calculate_profit_metrics"
       => /\ fnRet.exc = "none"
          /\ Len(fnRet.metrics) = 4
          /\ fnRet = RetMetrics(calculate_profit_metrics(NoneAsZero(fnCall.price), NoneAsZero(fnCall.shipping), NoneAsZero(fnCall.cogs), NoneAsZero(fnCall.shipping_cost_input), NoneAsZero(fnCall.ad_rate), fnCall.category))
          /\ (\E x \in {fnCall.price, fnCall.shipping, fnCall.cogs, fnCall.shipping_cost_input, fnCall.ad_rate} : CoercionFails(x))
             => fnRet.metrics = <<0, Frac(0, 1), 0, 0>>
    /\ fnCall.fn = "calculate_cogs_from_margin"
       => /\ fnRet.exc = "none"
          /\ fnRet = RetNum(calculate_cogs_from_margin(NoneAsZero(fnCall.price), NoneAsZero(fnCall.shipping), NoneAsZero(fnCall.shipping_cost_input), NoneAsZero(fnCall.ad_rate), fnCall.category, NoneAsZero(fnCall.target_margin)))
          /\ (\E x \in {fnCall.price, fnCall.shipping, fnCall.shipping_cost_input, fnCall.ad_rate, fnCall.target_margin} : CoercionFails(x))
             => fnRet.num = 0

-----------------------------------------------------------------------------
(* Claims about the listing filter of the search run, checked under Spec *)

\* the raw listings of the response a normalized result was made from
Sources(r) == {j \in 1..Len(items) : items[j].itemWebUrl = r.link /\ items[j].title = r.listing}

\* price + shipping of a raw listing, in whole cents
TotalCents(item) == (Get(item.price, Num(0)).v + Get(item.shipping, Num(0)).v) \div Cents(1)

\* phrase occurs in title as consecutive words
Contains(title, phrase) ==
    \E start \in 0..(Len(title) - Len(phrase)) :
        \A i \in 1..Len(phrase) : title[start + i] = phrase[i]

MatchesExclusion(title) == \E phrase \in excluded_terms_headphones : Contains(title, phrase)

\* the loop has gone through the whole response
RunOver == pc = "form" /\ items # <<>>

\* C7: no listing with condition code "7000" is in the normalized results,
\* whatever its price and shipping and whatever the max price.
C7_NoForPartsInResults ==
    \A i \in 1..Len(results) :
        /\ Sources(results[i]) # {}
        /\ \A j \in Sources(results[i]) : items[j].conditionId # "7000"

\* a response with a for-parts listing within the ceiling, beside listings
\* that were output
C7_Witness ==
    /\ RunOver
    /\ results # <<>>
    /\ \E j \in 1..Len(items) :
        /\ items[j].conditionId = "7000"
        /\ TotalCents(items[j]) <= 100 * max_price

\* C8: every listing in the normalized results has price + shipping <= the
\* max price of the form.
C8_ResultsWithinMaxPrice ==
    \A i \in 1..Len(results) :
        /\ Sources(results[i]) # {}
        /\ \A j \in Sources(results[i]) : TotalCents(items[j]) <= 100 * max_price

\* the API returned a listing above the ceiling beside one that was output
C8_Witness ==
    /\ RunOver
    /\ results # <<>>
    /\ \E j \in 1..Len(items) :
        /\ IsNum(items[j].price)
        /\ items[j].conditionId # "7000"
        /\ TotalCents(items[j]) > 100 * max_price

UpstreamHonoursQuery ==
    \A j \in 1..Len(items) : \A phrase \in query.minus : ~Contains(items[j].title, phrase)

C10_WellFormed(item) ==
    /\ item.price.k \in {"num", "absent"}
    /\ item.shipping.k \in {"num", "absent"}
    /\ item.feedbackScore.k \in {"num", "absent"}
    /\ item.feedbackPercentage.k \in {"num", "absent"}

C10_Passes(item) ==
    /\ C10_WellFormed(item)
    /\ item.conditionId # "7000"
    /\ TotalCents(item) <= 100 * max_price

\* C10: a malformed record is skipped and the batch goes on: once the run is
\* over every well-formed record that passes the condition and max-price
\* filters is in the normalized results, wherever the malformed records of
\* the batch stand; during the loop this holds of the records gone through.
C10_MalformedSkippedBatchContinues ==
    \A j \in 1..Len(items) :
        (C10_Passes(items[j]) /\ (RunOver \/ (pc = "loop" /\ j < idx)))
        => \E i \in 1..Len(results) : j \in Sources(results[i])

\* a malformed record ahead of a well-formed one that was output
C10_Witness ==
    /\ RunOver
    /\ warnings > 0
    /\ \E j, k \in 1..Len(items) :
        /\ j < k
        /\ ~C10_WellFormed(items[j])
        /\ C10_Passes(items[k])
        /\ \E i \in 1..Len(results) : k \in Sources(results[i])

-----------------------------------------------------------------------------
(* Claims about the saved searches and the search run under them *)

NamesOf(saved) == {saved[i].name : i \in 1..Len(saved)}

C11_NoTwoSameName ==
    \A i, j \in 1..Len(saved_searches) :
        i # j => saved_searches[i].name # saved_searches[j].name

\* a click on "Save Search" is the one step that ends with one of the two
\* messages of lines 369 and 371
C11_SaveStep == outcome' \in {"saved", "already_exists"} /\ pc = "form" /\ render_error = "none"

\* C11: after any sequence of save and delete actions starting from the empty
\* list no two entries of the saved-search list have the same derived name
\* (search term + category + max price), and a save whose derived name is
\* already in the list returns False and leaves the list unchanged.
C11_SavedNamesUnique ==
    /\ []C11_NoTwoSameName
    /\ [][(C11_SaveStep /\ SearchName(Widgets') \in NamesOf(saved_searches))
            => (outcome' = "already_exists" /\ saved_searches' = saved_searches)]_vars

\* two entries are saved and a save of other values under the name of the
\* second one was refused
C11_Witness ==
    /\ outcome = "already_exists"
    /\ Len(saved_searches) = 2
    /\ saved_searches[2].name = SearchName(Widgets)
    /\ saved_searches[2].params.cogs_method # cogs_method

C12_Failures == {"no_token", "api_error", "network_error"}

\* C12: in a search run where the token or the API call failed the run is
\* over with the error reported, no listing was processed and nothing is
\* shown; the loop is entered and results are shown only after a response
\* that carried listings.
C12_NoResultsOnFailure ==
    /\ outcome \in C12_Failures => (pc = "form" /\ items = <<>> /\ results = <<>> /\ shown = <<>>)
    /\ pc = "loop" => (outcome = "searching" /\ items # <<>>)
    /\ shown # <<>> => (outcome = "shown" /\ items # <<>> /\ \A i \in 1..Len(shown) : \E j \in 1..Len(items) : shown[i].link = items[j].itemWebUrl)

\* the API call of a search for "sony" failed
C12_Witness ==
    /\ outcome \in {"api_error", "network_error"}
    /\ query.term = "sony"
    /\ shown = <<>>

C13_SearchOutcomes == {"no_term", "no_token", "api_error", "network_error", "no_items", "searching", "shown", "no_results"}

\* C13 as stated: after every click of the search button no loaded_* key
\* remains in session state.
C13_ConsumedByEveryClick ==
    outcome \in C13_SearchOutcomes => ~loaded.present

\* the form was built with the defaults of the code, not with loaded values
C13_NotPrefilled ==
    [drawn EXCEPT !.cogs = None, !.target_profit_margin = None] = [Defaults EXCEPT !.cogs = None, !.target_profit_margin = None]

\* C13 amended: after every click of the search button that got past the
\* validation of the search term and obtained a token no loaded_* key remains, and
\* the form of every later run is built with the defaults of the code; a click
\* stopped for an empty term or a missing token deletes no key.
C13_ConsumedBySearchSent ==
    /\ outcome \in (C13_SearchOutcomes \ {"no_term", "no_token"}) => ~loaded.present
    /\ (~loaded.present /\ outcome \notin C13_SearchOutcomes) => C13_NotPrefilled

\* a search drawn from the loaded values ("sony" comes from loaded_search_term)
\* showed its results and the keys are gone
C13_Witness ==
    /\ outcome = "shown"
    /\ drawn.search_term = "sony"
    /\ ~loaded.present

\* C14: drawing the cost form never fails: whenever a loaded_* override is
\* present, the one read for the cost-input mode selected (loaded_cogs in
\* manual mode, loaded_target_profit_margin in target-margin mode) is a
\* number, never None.
C14_OverrideReadIsANumber ==
    /\ render_error = "none"
    /\ loaded.present =>
        IF cogs_method = "Manual COGS Entry"
        THEN IsNum(loaded.p.cogs)
        ELSE IsNum(loaded.p.target_profit_margin)

=============================================================================
